---- MODULE Spec2Model ----
(***************************************************************************)
(* Model of src/app.py: the text-generation backend selection layer of the *)
(* SEO tools server.  The process-wide state (ollama_available,            *)
(* hf_pipeline, GENERATION_METHOD) is shared, without locks, between the   *)
(* startup code and the request threads of the Flask server.  Every step   *)
(* that reads or writes one of those globals is an action of its own, so   *)
(* that the interleavings of concurrently served requests are explored.    *)
(*                                                                         *)
(* Text is modelled as a sequence of tokens (a token is a character or a   *)
(* fixed piece of a format string); formatting is concatenation, slicing,  *)
(* str.startswith, str.lstrip and the `in` test are computed on those      *)
(* sequences.  None is modelled as the empty sequence for optional text    *)
(* and as 0 for the pipeline handle.                                       *)
(***************************************************************************)
EXTENDS Integers, Sequences, FiniteSets, TLC

\* ------------------------------------------------------------------ bounds
MaxConstructs == 2     \* successful pipeline(...) constructions explored
MaxLen == 4            \* longest text drawn for a direct call

\* ------------------------------------------------------- program constants
OLLAMA_MODEL == "gemma3:1b"
HF_MODEL_FALLBACK == "google/gemma-2b"
None == 0              \* hf_pipeline = None
NoText == <<>>         \* error_message = None
ErrorMarker == "--- Wolfgank AI Error"
Timestamp == "<timestamp>"

MainThread == 0
Threads == {1, 2}       \* two request threads of the threaded development server
Procs == {MainThread} \cup Threads

\* ---------------------------------------------------------- text helpers
IsSpace(tok) == tok \in {" ", "\n"}

StartsWith(s, p) == Len(s) >= Len(p) /\ SubSeq(s, 1, Len(p)) = p

Slice(s, n) == SubSeq(s, n + 1, Len(s))

RECURSIVE LStrip(_)
LStrip(s) == IF s # <<>> /\ IsSpace(Head(s)) THEN LStrip(Tail(s)) ELSE s

Contains(s, sub) ==
    \E i \in 1..(Len(s) - Len(sub) + 1) : SubSeq(s, i, i + Len(sub) - 1) = sub

Truthy(s) == s # <<>>

OllamaSource == <<"Ollama (", OLLAMA_MODEL, ")">>
HfSource == <<"Hugging Face (", HF_MODEL_FALLBACK, ")">>
ErrorSource == <<"Error">>
UnknownSource == <<"Unknown">>

\* ------------------------------------------------------------------- state
VARIABLES
    TRANSFORMERS_AVAILABLE, \* outcome of the import at module load
    ollama_available,       \* global, written by the startup probe
    hf_pipeline,            \* global handle: None or the id of a construction
    GENERATION_METHOD,      \* global label (text)
    nConstructed,           \* marker: pipeline(...) constructions that succeeded
    pc,                     \* position of the main thread and of each request thread
    loc,                    \* locals of the call each thread is in
    hist,                   \* what the current (or last) call of each thread did
    ret,                    \* value last returned to each thread's caller
    resp                    \* last HTTP response of each request thread

vars == <<TRANSFORMERS_AVAILABLE, ollama_available, hf_pipeline, GENERATION_METHOD,
          nConstructed, pc, loc, hist, ret, resp>>

globals == <<ollama_available, hf_pipeline, GENERATION_METHOD, nConstructed>>

MethodNone == <<"None">>
MethodOllama == <<"Ollama (", OLLAMA_MODEL, ")">>
MethodHf == <<"Hugging Face">>
MethodHfInitFailed == <<"Error", ": HF Init Failed">>
MethodTransformersMissing == <<"Error", ": Transformers Missing">>

\* data.get(<required field>) of a handler: has = FALSE is None (the key is absent).
NoField == [has |-> FALSE, value |-> <<>>]

NoLocals == [caller |-> "none", route |-> "none", data |-> "none", field |-> NoField,
             tool |-> <<>>, prompt |-> <<>>,
             source |-> UnknownSource, result_text |-> <<>>,
             error_message |-> NoText, init_from |-> "none"]

NoHistory == [ollama_calls |-> 0, hf_calls |-> 0, init_calls |-> 0, constructs |-> 0,
              errlog |-> <<>>, raised |-> <<>>, attempted |-> <<>>,
              output |-> <<>>,
              init_ret |-> <<>>, path |-> "none",
              seen |-> <<>>, fallback_info |-> <<>>]

NoResponse == [status |-> 0, field |-> "none", body |-> <<>>]

\* State after the module body (lines 16-47) has run and before line 265.
Init ==
    /\ TRANSFORMERS_AVAILABLE \in BOOLEAN
    /\ ollama_available = FALSE
    /\ hf_pipeline = None
    /\ GENERATION_METHOD = MethodNone
    /\ nConstructed = 0
    /\ pc = [p \in Procs |-> IF p = MainThread THEN "probe" ELSE "idle"]
    /\ loc = [p \in Procs |-> NoLocals]
    /\ hist = [p \in Procs |-> NoHistory]
    /\ ret = [p \in Procs |-> <<>>]
    /\ resp = [t \in Threads |-> NoResponse]

\* Exception texts the collaborators may raise.
ProbeErrors == {<<"connection refused">>}
InitErrors == {<<"model load failed">>}
OllamaErrors == {<<"connection refused">>}
PipelineErrors == {<<"CUDA out of memory">>}
NoneCallError == <<"'NoneType' object is not callable">>

\* ------------------------------------------------- startup (lines 265-282)
\* Variant of ProbeOk that goes on to the eager initialization; C15 must not
\* survive it.
ProbeOkThenInitialize ==
    /\ pc[MainThread] = "probe"
    /\ ollama_available' = TRUE
    /\ GENERATION_METHOD' = MethodOllama
    /\ pc' = [pc EXCEPT ![MainThread] = "init_enter"]
    /\ loc' = [loc EXCEPT ![MainThread].init_from = "main"]
    /\ UNCHANGED <<TRANSFORMERS_AVAILABLE, hf_pipeline, nConstructed, hist, ret, resp>>

\* ollama.list() answers.
ProbeOk ==
    /\ pc[MainThread] = "probe"
    /\ ollama_available' = TRUE
    /\ GENERATION_METHOD' = MethodOllama
    /\ pc' = [pc EXCEPT ![MainThread] = "serving"]
    /\ UNCHANGED <<TRANSFORMERS_AVAILABLE, hf_pipeline, nConstructed, loc, hist, ret, resp>>

\* ollama.list() raises: the except branch goes on to the eager initialization.
ProbeFail ==
    /\ pc[MainThread] = "probe"
    /\ \E e \in ProbeErrors :
        /\ ollama_available' = FALSE
        /\ pc' = [pc EXCEPT ![MainThread] = "init_enter"]
        /\ loc' = [loc EXCEPT ![MainThread].init_from = "main"]
    /\ UNCHANGED <<TRANSFORMERS_AVAILABLE, hf_pipeline, GENERATION_METHOD,
                   nConstructed, hist, ret, resp>>

Serving == pc[MainThread] = "serving"

\* ------------------------------------- initialize_hf_pipeline (lines 53-80)
LogTransformersMissing ==
    <<"Transformers library not installed. Cannot initialize Hugging Face pipeline.">>
LogInitFailed(e) ==
    <<"Failed to initialize Hugging Face pipeline (", HF_MODEL_FALLBACK, "): ">> \o e
MsgInitFailed ==
    <<"Error: Failed to initialize Hugging Face fallback model (", HF_MODEL_FALLBACK, ").">>

PyBool(b) == IF b THEN <<"True">> ELSE <<"False">>

\* Variant of AlreadyInitialized without the guard of line 61; C6 must not survive it.
NeverInitialized(handle) == FALSE

\* line 61: `if hf_pipeline is None` guards the construction.
AlreadyInitialized(handle) == handle # None

\* Variant of SourceAfterInit that forgets line 104; C5 must not survive it.
SourceAfterInitKept(r, source) == source

\* lines 101-104: the source label of generate_text once initialize_hf_pipeline
\* has returned r.
SourceAfterInit(r, source) == IF r THEN source ELSE ErrorSource

\* The return of initialize_hf_pipeline to its caller: the main program (line 278),
\* generate_text (lines 101-104) or a direct caller.  h is the caller's history so far.
InitReturn(p, r, h) ==
    LET h2 == [h EXCEPT !.init_ret = PyBool(r)] IN
    CASE loc[p].init_from = "main" ->
            /\ pc' = [pc EXCEPT ![p] = "serving"]
            /\ hist' = [hist EXCEPT ![p] = h2]
            /\ loc' = [loc EXCEPT ![p] = NoLocals]
            /\ ret' = [ret EXCEPT ![p] = PyBool(r)]
      [] loc[p].init_from = "gen" ->
            /\ pc' = [pc EXCEPT ![p] = "hf_check"]
            /\ ret' = ret
            /\ IF r
               THEN /\ hist' = [hist EXCEPT ![p] = h2]
                    /\ loc' = [loc EXCEPT ![p].init_from = "none"]
               ELSE /\ hist' = [hist EXCEPT ![p] =
                                  [h2 EXCEPT !.errlog = Append(@, MsgInitFailed)]]
                    /\ loc' = [loc EXCEPT ![p].init_from = "none",
                                          ![p].error_message = MsgInitFailed,
                                          ![p].source = SourceAfterInit(r, @)]
      [] OTHER ->
            /\ pc' = [pc EXCEPT ![p] = "idle"]
            /\ hist' = [hist EXCEPT ![p] = h2]
            /\ loc' = [loc EXCEPT ![p].init_from = "none"]
            /\ ret' = [ret EXCEPT ![p] = PyBool(r)]

\* lines 56-61 and 80: the two guards of the function.
InitEnter(p) ==
    /\ pc[p] = "init_enter"
    /\ LET h == [hist[p] EXCEPT !.init_calls = @ + 1] IN
       IF ~TRANSFORMERS_AVAILABLE
       THEN /\ GENERATION_METHOD' = MethodTransformersMissing
            /\ InitReturn(p, FALSE, [h EXCEPT !.errlog = Append(@, LogTransformersMissing)])
       ELSE IF AlreadyInitialized(hf_pipeline)
       THEN /\ InitReturn(p, TRUE, h)
            /\ UNCHANGED GENERATION_METHOD
       ELSE /\ pc' = [pc EXCEPT ![p] = "init_construct"]
            /\ hist' = [hist EXCEPT ![p] = h]
            /\ UNCHANGED <<GENERATION_METHOD, loc, ret>>
    /\ UNCHANGED <<TRANSFORMERS_AVAILABLE, ollama_available, hf_pipeline, nConstructed, resp>>

\* lines 63-72: pipeline(...) returns a new handle, which line 66 stores.  The
\* construction itself touches no shared state, so it is one step with the store.
InitConstructOk(p) ==
    /\ pc[p] = "init_construct"
    /\ nConstructed < MaxConstructs
    /\ nConstructed' = nConstructed + 1
    /\ hf_pipeline' = nConstructed + 1
    /\ hist' = [hist EXCEPT ![p].constructs = @ + 1]
    /\ pc' = [pc EXCEPT ![p] = "init_set_method"]
    /\ UNCHANGED <<TRANSFORMERS_AVAILABLE, ollama_available, GENERATION_METHOD,
                   loc, ret, resp>>

\* lines 73-74.
InitSetMethod(p) ==
    /\ pc[p] = "init_set_method"
    /\ GENERATION_METHOD' = MethodHf
    /\ InitReturn(p, TRUE, hist[p])
    /\ UNCHANGED <<TRANSFORMERS_AVAILABLE, ollama_available, hf_pipeline, nConstructed, resp>>

\* lines 66-71 raise; the except branch logs (line 76) and stores None (line 77).
InitConstructFail(p) ==
    /\ pc[p] = "init_construct"
    /\ \E e \in InitErrors :
        hist' = [hist EXCEPT ![p].constructs = @ + 1,
                             ![p].errlog = Append(@, LogInitFailed(e))]
    /\ hf_pipeline' = None
    /\ pc' = [pc EXCEPT ![p] = "init_fail_method"]
    /\ UNCHANGED <<TRANSFORMERS_AVAILABLE, ollama_available, GENERATION_METHOD,
                   nConstructed, loc, ret, resp>>

\* lines 78-79.
InitFailMethod(p) ==
    /\ pc[p] = "init_fail_method"
    /\ GENERATION_METHOD' = MethodHfInitFailed
    /\ InitReturn(p, FALSE, hist[p])
    /\ UNCHANGED <<TRANSFORMERS_AVAILABLE, ollama_available, hf_pipeline, nConstructed, resp>>

\* -------------------------------------------- generate_text (lines 82-148)
MsgNoPipeline ==
    <<"Error: Hugging Face pipeline is not available after initialization attempt.">>
MsgNoBackend ==
    <<"Error: Ollama is unavailable and the Transformers library is not installed. Cannot generate text.">>
LogGenerationError(source, tool, e) ==
    <<"Error during text generation via ">> \o source \o <<" for ">> \o tool \o <<": ">> \o e
MsgGenerationError(source, e) ==
    <<"Error during text generation using ">> \o source \o <<": ">> \o e

\* line 135.
SuccessBanner(tool, source, text) ==
    <<"--- Wolfgank AI [">> \o tool \o <<"] Result (">> \o source
        \o <<" @ ", Timestamp, ") ---", "\n", "\n">> \o text
        \o <<"\n", "\n", "--- End of Report ---">>

\* lines 147-148.
ErrorBanner(error_message, fallback_info) ==
    <<ErrorMarker, " (", Timestamp, ") ---", "\n", "\n">>
        \o (IF Truthy(error_message) THEN error_message
            ELSE <<"An unknown error occurred during text generation.">>)
        \o fallback_info
        \o <<"\n", "Please check logs and model availability.", "\n", "\n",
             "--- End of Report ---">>

FallbackStatus(method) == <<" Fallback Status: ">> \o method \o <<".">>
FallbackNoTransformers == <<" Fallback attempted but Transformers library is missing.">>
FallbackInitFailed ==
    <<" Fallback attempted but HF model (", HF_MODEL_FALLBACK, ") failed to initialize.">>

\* Variant of StripEcho that forgets .lstrip(); C9 must not survive it.
StripEchoNoTrim(prompt, text) ==
    IF StartsWith(text, prompt) THEN Slice(text, Len(prompt)) ELSE text

\* lines 114-115: strip the echoed prompt, then leading whitespace.
StripEcho(prompt, text) ==
    IF StartsWith(text, prompt) THEN LStrip(Slice(text, Len(prompt))) ELSE text

\* Variant of UsePrimary with the test inverted; C1 must not survive it.
UsePrimaryInverted(available) == ~available

\* line 90: the branch of generate_text taken for a value of ollama_available.
UsePrimary(available) == available

\* Variant of AfterExcept that retries a failed primary invocation; C2 must not
\* survive it.
AfterExceptRetry(source) == IF source = OllamaSource THEN "ollama_chat" ELSE "format"

\* lines 127-130: where control goes once the except clause has run.
AfterExcept(source) == "format"

\* lines 127-130: the except clause of generate_text, for exception text e.
Except(t, e, h) ==
    /\ hist' = [hist EXCEPT ![t] =
                  [h EXCEPT !.errlog = Append(@, LogGenerationError(loc[t].source, loc[t].tool, e)),
                            !.raised = e,
                            !.attempted = loc[t].source]]
    /\ loc' = [loc EXCEPT ![t].error_message = MsgGenerationError(loc[t].source, e),
                          ![t].source = ErrorSource]
    /\ pc' = [pc EXCEPT ![t] = AfterExcept(loc[t].source)]

\* lines 85-104 up to the first use of a global that another thread may change:
\* the read of ollama_available (line 90) and, on the fallback branch, of
\* hf_pipeline (line 100).
GenStart(t) ==
    /\ pc[t] = "gen_start"
    /\ IF UsePrimary(ollama_available)
       THEN /\ loc' = [loc EXCEPT ![t].source = OllamaSource]
            /\ hist' = [hist EXCEPT ![t].path = "primary"]
            /\ pc' = [pc EXCEPT ![t] = "ollama_chat"]
       ELSE IF TRANSFORMERS_AVAILABLE
       THEN /\ hist' = [hist EXCEPT ![t].path = "secondary"]
            /\ IF hf_pipeline = None
               THEN /\ loc' = [loc EXCEPT ![t].source = HfSource, ![t].init_from = "gen"]
                    /\ pc' = [pc EXCEPT ![t] = "init_enter"]
               ELSE /\ loc' = [loc EXCEPT ![t].source = HfSource]
                    /\ pc' = [pc EXCEPT ![t] = "hf_check"]
       ELSE /\ loc' = [loc EXCEPT ![t].error_message = MsgNoBackend,
                                  ![t].source = ErrorSource]
            /\ hist' = [hist EXCEPT ![t].path = "none",
                                    ![t].errlog = Append(@, MsgNoBackend)]
            /\ pc' = [pc EXCEPT ![t] = "format"]
    /\ UNCHANGED <<TRANSFORMERS_AVAILABLE, globals, ret, resp>>

\* Texts the primary service may answer with.
OllamaOutputs == {<<"hasil">>, <<ErrorMarker, " palsu">>}

\* lines 93-95: ollama.chat(...) returns content.
OllamaChatOk(t) ==
    /\ pc[t] = "ollama_chat"
    /\ \E text \in OllamaOutputs :
        /\ loc' = [loc EXCEPT ![t].result_text = text]
        /\ hist' = [hist EXCEPT ![t].ollama_calls = @ + 1, ![t].output = text]
    /\ pc' = [pc EXCEPT ![t] = "format"]
    /\ UNCHANGED <<TRANSFORMERS_AVAILABLE, globals, ret, resp>>

\* Variant of OllamaChatRaise whose except clause marks the primary unavailable;
\* C12 must not survive it.
OllamaChatRaiseMarksDown(t) ==
    /\ pc[t] = "ollama_chat"
    /\ \E e \in OllamaErrors :
        Except(t, e, [hist[t] EXCEPT !.ollama_calls = @ + 1])
    /\ ollama_available' = FALSE
    /\ UNCHANGED <<TRANSFORMERS_AVAILABLE, hf_pipeline, GENERATION_METHOD, nConstructed,
                   ret, resp>>

\* line 93 raises.
OllamaChatRaise(t) ==
    /\ pc[t] = "ollama_chat"
    /\ \E e \in OllamaErrors :
        Except(t, e, [hist[t] EXCEPT !.ollama_calls = @ + 1])
    /\ UNCHANGED <<TRANSFORMERS_AVAILABLE, globals, ret, resp>>

\* lines 108 and 117-120: the second read of hf_pipeline.
HfCheck(t) ==
    /\ pc[t] = "hf_check"
    /\ IF hf_pipeline # None
       THEN /\ pc' = [pc EXCEPT ![t] = "hf_invoke"]
            /\ UNCHANGED <<loc, hist>>
       ELSE IF ~Truthy(loc[t].error_message)
       THEN /\ loc' = [loc EXCEPT ![t].error_message = MsgNoPipeline,
                                  ![t].source = ErrorSource]
            /\ hist' = [hist EXCEPT ![t].errlog = Append(@, MsgNoPipeline)]
            /\ pc' = [pc EXCEPT ![t] = "format"]
       ELSE /\ pc' = [pc EXCEPT ![t] = "format"]
            /\ UNCHANGED <<loc, hist>>
    /\ UNCHANGED <<TRANSFORMERS_AVAILABLE, globals, ret, resp>>

\* Texts the pipeline may generate for a prompt: with and without the echo.
PipelineOutputs(prompt) ==
    {prompt \o <<" ", "hasil">>, <<ErrorMarker>>}

\* lines 111-116: the third read of hf_pipeline and the call of the handle.
\* Calling None raises TypeError, which the except clause catches.
HfInvokeOk(t, outputs) ==
    /\ pc[t] = "hf_invoke"
    /\ hf_pipeline # None
    /\ \E text \in outputs :
        /\ loc' = [loc EXCEPT ![t].result_text = StripEcho(loc[t].prompt, text)]
        /\ hist' = [hist EXCEPT ![t].hf_calls = @ + 1, ![t].output = text]
    /\ pc' = [pc EXCEPT ![t] = "format"]
    /\ UNCHANGED <<TRANSFORMERS_AVAILABLE, globals, ret, resp>>

HfInvokeRaise(t) ==
    /\ pc[t] = "hf_invoke"
    /\ IF hf_pipeline = None
       THEN Except(t, NoneCallError, hist[t])
       ELSE \E e \in PipelineErrors :
               Except(t, e, [hist[t] EXCEPT !.hf_calls = @ + 1])
    /\ UNCHANGED <<TRANSFORMERS_AVAILABLE, globals, ret, resp>>

\* lines 177-179 (and the same three lines of the other four handlers): the
\* response a handler makes of the text generate_text returned.
IsErrorBanner(result) == Contains(result, <<ErrorMarker>>)

\* Variant of HandlerResponse without the marker test; C10 must not survive it.
HandlerResponseAlwaysOk(result) == [status |-> 200, field |-> "result", body |-> result]

HandlerResponse(result) ==
    IF IsErrorBanner(result)
    THEN [status |-> 500, field |-> "error", body |-> result]
    ELSE [status |-> 200, field |-> "result", body |-> result]

\* The return of generate_text to its caller; a handler goes on to respond.
GenReturn(t, banner) ==
    /\ ret' = [ret EXCEPT ![t] = banner]
    /\ resp' = IF loc[t].caller = "handler"
               THEN [resp EXCEPT ![t] = HandlerResponse(banner)]
               ELSE resp
    /\ loc' = [loc EXCEPT ![t] = [NoLocals EXCEPT !.caller = loc[t].caller,
                                                  !.route = loc[t].route,
                                                  !.data = loc[t].data,
                                                  !.field = loc[t].field,
                                                  !.tool = loc[t].tool,
                                                  !.prompt = loc[t].prompt]]
    /\ pc' = [pc EXCEPT ![t] = "idle"]

\* Variant of IsSuccess that never takes the error branch; C4 must not survive it.
IsSuccessAlways(source) == TRUE

\* line 134: `if source != "Error"` chooses the success banner.
IsSuccess(source) == source # ErrorSource

\* lines 139-148: the error banner returned with fallback_info; the history keeps
\* the text and the three values the text is said to derive from, as they are
\* when the banner is made.
ErrorReturn(t, fallback_info) ==
    /\ GenReturn(t, ErrorBanner(loc[t].error_message, fallback_info))
    /\ hist' = [hist EXCEPT ![t].seen = <<ollama_available, TRANSFORMERS_AVAILABLE,
                                           hf_pipeline # None>>,
                            ![t].fallback_info = fallback_info]

\* lines 133-143: the banner, up to the first read of GENERATION_METHOD (line 140).
Format(t) ==
    /\ pc[t] = "format"
    /\ IF IsSuccess(loc[t].source)
       THEN /\ GenReturn(t, SuccessBanner(loc[t].tool, loc[t].source, loc[t].result_text))
            /\ UNCHANGED hist
       ELSE IF StartsWith(GENERATION_METHOD, <<"Error">>)
       THEN /\ pc' = [pc EXCEPT ![t] = "format_status"]
            /\ UNCHANGED <<ret, loc, resp, hist>>
       ELSE IF ~ollama_available /\ ~TRANSFORMERS_AVAILABLE
       THEN ErrorReturn(t, FallbackNoTransformers)
       ELSE IF ~ollama_available
       THEN /\ pc' = [pc EXCEPT ![t] = "format_pipe"]
            /\ UNCHANGED <<ret, loc, resp, hist>>
       ELSE ErrorReturn(t, <<>>)
    /\ UNCHANGED <<TRANSFORMERS_AVAILABLE, globals>>

\* line 141: the second read of GENERATION_METHOD.
FormatStatus(t) ==
    /\ pc[t] = "format_status"
    /\ ErrorReturn(t, FallbackStatus(GENERATION_METHOD))
    /\ UNCHANGED <<TRANSFORMERS_AVAILABLE, globals>>

\* lines 144-145: the read of hf_pipeline for the fallback text.
FormatPipe(t) ==
    /\ pc[t] = "format_pipe"
    /\ ErrorReturn(t, IF hf_pipeline = None THEN FallbackInitFailed ELSE <<>>)
    /\ UNCHANGED <<TRANSFORMERS_AVAILABLE, globals>>

\* ------------------------------------------- request handlers (lines 165-261)
\* Values of the required field of a JSON payload: has = FALSE is a payload
\* without the key, for which data.get(...) is None.
FieldValues ==
    {[has |-> FALSE, value |-> <<>>],
     [has |-> TRUE, value |-> <<>>],
     [has |-> TRUE, value |-> <<"kopi lokal">>]}

\* Values of the optional `keywords` field (default '').
KeywordValues == {<<>>}

MetaContentLimit == 1000

KeywordHunterPrompt(topic) ==
    <<"Berikan daftar 15-20 kata kunci SEO long-tail yang relevan untuk topik: '">>
        \o topic \o <<"'. Kategorikan kata kunci ini [...] Format sebagai daftar.">>

MetaMasterPrompt(content, keywords) ==
    <<"Buatlah Judul SEO (Meta Title) [...] pertimbangkan kata kunci ini: '">>
        \o keywords \o <<"'.", "\n", "\n", "Konten:", "\n">>
        \o SubSeq(content, 1, IF Len(content) < MetaContentLimit THEN Len(content)
                                                                   ELSE MetaContentLimit)
        \o <<"...">>

ArticleForgePrompt(topic, keywords) ==
    <<"Tulis draf artikel blog SEO-friendly [...] tentang topik '">> \o topic
        \o <<"'. Masukkan kata kunci berikut secara alami jika memungkinkan: '">>
        \o keywords \o <<"'. Sertakan judul, pendahuluan, beberapa subjudul (H2), dan kesimpulan.">>

SeoAnalyzerPrompt(url) ==
    <<"Anda adalah asisten SEO. Berdasarkan URL '">> \o url
        \o <<"' dan analisis awal (simulasi) ini:", "\n", "Analisis SEO Awal untuk ">>
        \o url \o <<":", "\n", "- Kecepatan Muat: [...] (Analisis ini disimulasikan.)",
                     "\n", "\n", "Berikan ringkasan singkat [...] pengetahuan SEO umum.">>

NewsRadarPrompt(query) ==
    <<"Topik/Kata Kunci Pencarian Berita: '">> \o query
        \o <<"'", "\n", "Berikut adalah beberapa rangkuman [...] (simulasi):", "\n",
             "Tren pencarian untuk '">> \o query
        \o <<"' meningkat di Google Trends minggu ini.", "\\n",
             "Sebuah artikel di Kompasiana membahas dampak '">> \o query
        \o <<"' pada UMKM lokal.", "\\n",
             "Pemerintah mengumumkan regulasi baru [...] terkait '">> \o query
        \o <<"'.", "\n", "Berikan analisis singkat [...] Apa tren utama yang terlihat?">>

\* Variant of FieldMissing that tests `is None` instead of `not`; C11 must not
\* survive it.
FieldMissingOnlyAbsent(field) == ~field.has

\* line 170 (and 191, 208, 225, 244): `if not topic`, true of None and of ''.
FieldMissing(field) == ~field.has \/ ~Truthy(field.value)

\* The part every handler shares once request.get_json() has returned an object:
\* the presence check of the required field, the 400 response, and the call of
\* generate_text.
Handle(t, route, field, missing, tool, prompt) ==
    /\ pc[t] = "idle"
    /\ Serving
    /\ hist' = [hist EXCEPT ![t] = NoHistory]
    /\ ret' = [ret EXCEPT ![t] = <<>>]
    /\ IF FieldMissing(field)
       THEN /\ resp' = [resp EXCEPT ![t] =
                          [status |-> 400, field |-> "error", body |-> missing]]
            /\ loc' = [loc EXCEPT ![t] = [NoLocals EXCEPT !.route = route,
                                                          !.data = "object",
                                                          !.field = field]]
            /\ pc' = pc
       ELSE /\ resp' = [resp EXCEPT ![t] = NoResponse]
            /\ loc' = [loc EXCEPT ![t] = [NoLocals EXCEPT !.caller = "handler",
                                                          !.route = route,
                                                          !.data = "object",
                                                          !.field = field,
                                                          !.tool = tool,
                                                          !.prompt = prompt]]
            /\ pc' = [pc EXCEPT ![t] = "gen_start"]
    /\ UNCHANGED <<TRANSFORMERS_AVAILABLE, globals>>

Routes == {"/api/keyword-hunter", "/api/meta-master", "/api/article-forge",
           "/api/seo-analyzer", "/api/news-radar"}

\* What data.get(...) raises when the body is the JSON value null, for which
\* request.get_json() returns None.
PayloadErrors == {<<"'NoneType' object has no attribute 'get'">>}

LogHandlerError(route, e) == <<"Error in ", route, " endpoint: ">> \o e
MsgHandlerError(e) == <<"Terjadi kesalahan server: ">> \o e

\* lines 168-169 and 180-182 (and the same lines of the other four handlers): the
\* payload is not an object, the handler's own except clause answers 500.
BadPayload(t) ==
    /\ pc[t] = "idle"
    /\ Serving
    /\ \E route \in Routes, e \in PayloadErrors :
        /\ hist' = [hist EXCEPT ![t] =
                      [NoHistory EXCEPT !.errlog = <<LogHandlerError(route, e)>>]]
        /\ resp' = [resp EXCEPT ![t] =
                      [status |-> 500, field |-> "error", body |-> MsgHandlerError(e)]]
        /\ loc' = [loc EXCEPT ![t] = [NoLocals EXCEPT !.route = route, !.data = "null"]]
    /\ ret' = [ret EXCEPT ![t] = <<>>]
    /\ UNCHANGED <<TRANSFORMERS_AVAILABLE, globals, pc>>

keyword_hunter(t) ==
    \E topic \in FieldValues :
        Handle(t, "/api/keyword-hunter", topic, <<"Topik diperlukan.">>,
               <<"Keyword Hunter">>, KeywordHunterPrompt(topic.value))

meta_master(t) ==
    \E content \in FieldValues, keywords \in KeywordValues :
        Handle(t, "/api/meta-master", content, <<"Konten diperlukan.">>,
               <<"Meta Master">>, MetaMasterPrompt(content.value, keywords))

article_forge(t) ==
    \E topic \in FieldValues, keywords \in KeywordValues :
        Handle(t, "/api/article-forge", topic, <<"Topik diperlukan.">>,
               <<"Article Forge">>, ArticleForgePrompt(topic.value, keywords))

seo_analyzer(t) ==
    \E url \in FieldValues :
        Handle(t, "/api/seo-analyzer", url, <<"URL diperlukan.">>,
               <<"SEO Analyzer">>, SeoAnalyzerPrompt(url.value))

news_radar(t) ==
    \E query \in FieldValues :
        Handle(t, "/api/news-radar", query, <<"Query pencarian diperlukan.">>,
               <<"News Radar">>, NewsRadarPrompt(query.value))

\* ------------------------------------------------------------ the program
InitializerStep(p) ==
    \/ InitEnter(p)
    \/ InitConstructOk(p)
    \/ InitConstructFail(p)
    \/ InitSetMethod(p)
    \/ InitFailMethod(p)

Next ==
    \/ ProbeOk
    \/ ProbeFail
    \/ \E p \in Procs : InitializerStep(p)
    \/ \E t \in Threads :
        \/ keyword_hunter(t)
        \/ meta_master(t)
        \/ article_forge(t)
        \/ seo_analyzer(t)
        \/ news_radar(t)
        \/ BadPayload(t)
        \/ GenStart(t)
        \/ OllamaChatOk(t)
        \/ OllamaChatRaise(t)
        \/ HfCheck(t)
        \/ HfInvokeOk(t, PipelineOutputs(loc[t].prompt))
        \/ HfInvokeRaise(t)
        \/ Format(t)
        \/ FormatStatus(t)
        \/ FormatPipe(t)

\* The server as started by `python app.py`: the startup code, then request
\* threads serving the five routes concurrently.
Spec == Init /\ [][Next]_vars

\* ------------------------------------------------------------ direct calls
\* generate_text and initialize_hf_pipeline are module-level functions: a caller
\* (a unit test, another module) may call them one after the other with any
\* prompt, and the pipeline may generate any text.
Alphabet == {"a", " "}
DirectTexts == UNION {[1..n -> Alphabet] : n \in 0..MaxLen}
DirectCaller == CHOOSE t \in Threads : \A u \in Threads : t <= u

DirectGenerate(t) ==
    /\ pc[t] = "idle"
    /\ Serving
    /\ \E prompt \in DirectTexts :
        loc' = [loc EXCEPT ![t] = [NoLocals EXCEPT !.caller = "direct",
                                                   !.tool = <<"Direct">>,
                                                   !.prompt = prompt]]
    /\ hist' = [hist EXCEPT ![t] = NoHistory]
    /\ ret' = [ret EXCEPT ![t] = <<>>]
    /\ pc' = [pc EXCEPT ![t] = "gen_start"]
    /\ UNCHANGED <<TRANSFORMERS_AVAILABLE, globals, resp>>

DirectInit(t) ==
    /\ pc[t] = "idle"
    /\ Serving
    /\ loc' = [loc EXCEPT ![t] = [NoLocals EXCEPT !.caller = "direct_init",
                                                  !.init_from = "direct"]]
    /\ hist' = [hist EXCEPT ![t] = NoHistory]
    /\ ret' = [ret EXCEPT ![t] = <<>>]
    /\ pc' = [pc EXCEPT ![t] = "init_enter"]
    /\ UNCHANGED <<TRANSFORMERS_AVAILABLE, globals, resp>>

NextDirect ==
    \/ ProbeOk
    \/ ProbeFail
    \/ \E p \in {MainThread, DirectCaller} : InitializerStep(p)
    \/ DirectGenerate(DirectCaller)
    \/ DirectInit(DirectCaller)
    \/ GenStart(DirectCaller)
    \/ OllamaChatOk(DirectCaller)
    \/ OllamaChatRaise(DirectCaller)
    \/ HfCheck(DirectCaller)
    \/ HfInvokeOk(DirectCaller, DirectTexts)
    \/ HfInvokeRaise(DirectCaller)
    \/ Format(DirectCaller)
    \/ FormatStatus(DirectCaller)
    \/ FormatPipe(DirectCaller)

\* The startup code, then one caller that calls the two functions directly,
\* one call after the other.
SpecDirect == Init /\ [][NextDirect]_vars

\* ---------------------------------------------------------------- claims
\* A call of generate_text by thread t has returned.
Returned(t) == pc[t] = "idle" /\ loc[t].caller \in {"handler", "direct"} /\ ret[t] # <<>>

\* Thread t is inside generate_text, or has returned from it.
InCall(t) == loc[t].caller \in {"handler", "direct"}

BackendCalls(t) == hist[t].ollama_calls + hist[t].hf_calls

\* Where thread t is while initialize_hf_pipeline or the secondary path runs.
SecondaryPcs == {"init_enter", "init_construct", "init_set_method", "init_fail_method",
                 "hf_check", "hf_invoke"}

\* C1: while ollama_available is true, no generate_text call enters the secondary
\* path: it never calls initialize_hf_pipeline, never constructs a pipeline and
\* never invokes one, whether ollama.chat returns or raises; the handle stays absent.
C1_PrimaryOnly ==
    ollama_available =>
        /\ hf_pipeline = None
        /\ nConstructed = 0
        /\ \A t \in Threads :
            /\ pc[t] \notin SecondaryPcs
            /\ hist[t].init_calls = 0
            /\ hist[t].constructs = 0
            /\ hist[t].hf_calls = 0
            /\ InCall(t) /\ pc[t] # "gen_start" => hist[t].path = "primary"

\* C1 witness: a call made with the primary available has returned after ollama.chat raised.
C1_Witness ==
    /\ ollama_available
    /\ \E t \in Threads :
        /\ Returned(t)
        /\ hist[t].ollama_calls = 1
        /\ hist[t].raised \in OllamaErrors

\* C2: a generate_text call invokes at most one backend, the backend is the one the
\* state at the call selects (the primary exactly when ollama_available), and a
\* primary invocation that raised is not followed by a secondary invocation.
C2_OneBackendPerCall ==
    \A t \in Threads :
        /\ BackendCalls(t) <= 1
        /\ hist[t].ollama_calls = 1 => ollama_available /\ hist[t].path = "primary"
        /\ hist[t].hf_calls = 1 =>
              ~ollama_available /\ TRANSFORMERS_AVAILABLE /\ hist[t].path = "secondary"
        /\ hist[t].attempted = OllamaSource =>
              /\ hist[t].hf_calls = 0
              /\ pc[t] \in {"format", "format_status", "format_pipe", "idle"}

\* C2 witness: a call whose primary invocation raised has returned with that one invocation.
C2_Witness ==
    \E t \in Threads :
        /\ Returned(t)
        /\ hist[t].attempted = OllamaSource
        /\ BackendCalls(t) = 1
        /\ IsErrorBanner(ret[t])

\* The source label a call of thread t was attempting when its backend raised.
AttemptedLabel(t) == IF hist[t].path = "primary" THEN OllamaSource ELSE HfSource

ErrorEntriesNaming(t, label) ==
    {i \in DOMAIN hist[t].errlog : Contains(hist[t].errlog[i], label)}

\* C3: when the primary or the secondary invocation raises, generate_text returns an
\* error banner whose message names the source that was being attempted and the
\* failure text, and the call wrote exactly one error log entry naming that source.
C3_RaiseReported ==
    \A t \in Threads :
        Returned(t) /\ hist[t].raised # <<>> =>
            /\ IsErrorBanner(ret[t])
            /\ Contains(ret[t], MsgGenerationError(AttemptedLabel(t), hist[t].raised))
            /\ Cardinality(ErrorEntriesNaming(t, AttemptedLabel(t))) = 1

SuccessHeader == <<"--- Wolfgank AI [">>

\* C4: with ollama_available false and TRANSFORMERS_AVAILABLE false, every
\* generate_text call invokes no backend and returns the error banner saying that
\* the Transformers library is not installed, never the success banner.
C4_NoBackendError ==
    ~ollama_available /\ ~TRANSFORMERS_AVAILABLE =>
        \A t \in Threads :
            /\ BackendCalls(t) = 0
            /\ Returned(t) =>
                /\ IsErrorBanner(ret[t])
                /\ Contains(ret[t], MsgNoBackend)
                /\ ~StartsWith(ret[t], SuccessHeader)
                /\ loc[t].caller = "handler" =>
                      resp[t].status = 500 /\ resp[t].field = "error"

\* C4 witness: a request has been answered with neither backend present.
C4_Witness ==
    /\ ~ollama_available
    /\ ~TRANSFORMERS_AVAILABLE
    /\ \E t \in Threads : Returned(t) /\ hist[t].path = "none" /\ resp[t].status = 500

\* The call of thread t found the handle absent (line 100) after the eager
\* initialization of the startup code had failed.
AfterFailedInit(t) ==
    /\ ~ollama_available
    /\ TRANSFORMERS_AVAILABLE
    /\ hist[MainThread].init_ret = <<"False">>
    /\ hist[t].path = "secondary"
    /\ hist[t].init_calls = 1

C6_InitIdempotent ==
    /\ [](nConstructed <= 1)
    /\ [][hf_pipeline # None => hf_pipeline' = hf_pipeline]_vars
    /\ [][\A p \in Procs :
            (/\ pc[p] = "init_enter"
             /\ pc'[p] # "init_enter"
             /\ TRANSFORMERS_AVAILABLE
             /\ hf_pipeline # None)
            => /\ pc'[p] # "init_construct"
               /\ nConstructed' = nConstructed
               /\ hist'[p].constructs = 0
               /\ hist'[p].init_ret = <<"True">>]_vars

\* C6 witness: a direct call made after the construction returned True without
\* constructing.
C6_Witness ==
    \E p \in Threads :
        /\ pc[p] = "idle"
        /\ loc[p].caller = "direct_init"
        /\ hist[p].init_calls = 1
        /\ hist[p].constructs = 0
        /\ ret[p] = <<"True">>
        /\ nConstructed = 1
        /\ hf_pipeline = 1

\* C7: over any interleaving of the startup initialization and the request
\* threads, at most one pipeline construction succeeds.
C7_ConstructedAtMostOnce == nConstructed <= 1

\* C8: once hf_pipeline is present no step resets it to None: None is only ever
\* stored over a handle that is None already.
C8_NeverResetOncePresent == [][hf_pipeline # None => hf_pipeline' # None]_vars

\* A call of thread t invoked the pipeline, which returned, and the call returned.
EchoCallDone(t) == Returned(t) /\ hist[t].hf_calls = 1 /\ hist[t].raised = <<>>

BannerOf(t, text) == ret[t] = SuccessBanner(loc[t].tool, HfSource, text)

IsBlank(w) == \A i \in DOMAIN w : IsSpace(w[i])

\* c from its first token that is not whitespace.
WithoutLeadingSpace(c) ==
    LET k == CHOOSE n \in 0..Len(c) :
                 /\ \A i \in 1..n : IsSpace(c[i])
                 /\ n = Len(c) \/ ~IsSpace(c[n + 1])
    IN SubSeq(c, k + 1, Len(c))

\* The three cases of C9 for prompt p and pipeline output out; twice(x) is what the
\* claim expects for the output p + p + c, given x = p + c.
EchoCases(t, p, out, twice(_)) ==
    /\ StartsWith(out, p) =>
          \A k \in 1..(Len(out) - Len(p)) :
              IsBlank(SubSeq(out, Len(p) + 1, Len(p) + k))
                  => BannerOf(t, WithoutLeadingSpace(Slice(out, Len(p) + k)))
    /\ StartsWith(out, p \o p) => BannerOf(t, twice(Slice(out, Len(p))))
    /\ ~StartsWith(out, p) => BannerOf(t, out)

SameText(x) == x

\* C9 as stated, for the prompts that are not blank: output p + whitespace + c gives
\* c without its leading whitespace; output p + p + c gives p + c; output not
\* starting with p is returned unchanged.
C9_AsStated ==
    \A t \in Threads :
        EchoCallDone(t) /\ ~IsBlank(loc[t].prompt) =>
            EchoCases(t, loc[t].prompt, hist[t].output, SameText)

\* C9 as amended, for every prompt: as stated, except that output p + p + c gives
\* p + c without its leading whitespace (which is p + c unless p begins with
\* whitespace, or p is empty and c begins with whitespace).
C9_EchoStripped ==
    \A t \in Threads :
        EchoCallDone(t) =>
            EchoCases(t, loc[t].prompt, hist[t].output, WithoutLeadingSpace)

\* C9 witness: the pipeline echoed the prompt "a" followed by " a", and the banner
\* holds "a".
C9_Witness ==
    \E t \in Threads :
        /\ EchoCallDone(t)
        /\ loc[t].prompt = <<"a">>
        /\ hist[t].output = <<"a", " ", "a">>
        /\ BannerOf(t, <<"a">>)

\* A POST /api/keyword-hunter with a topic has been answered with the primary available.
KeywordHunterDone(t) ==
    /\ ollama_available
    /\ Returned(t)
    /\ loc[t].caller = "handler"
    /\ loc[t].route = "/api/keyword-hunter"

ResultNamesToolAndSource(t) ==
    /\ resp[t].status = 200
    /\ resp[t].field = "result"
    /\ Contains(resp[t].body, <<"Keyword Hunter">>)
    /\ Contains(resp[t].body, <<"Ollama (", "gemma3:1b", ")">>)

\* C10 as stated: such a request is answered 200 with a result naming the tool
\* "Keyword Hunter" and the source "Ollama (gemma3:1b)".
C10_AsStated == \A t \in Threads : KeywordHunterDone(t) => ResultNamesToolAndSource(t)

\* C10 as amended: it is answered so when ollama.chat returns a text without the
\* error-banner marker; when ollama.chat raises, or its text contains the marker,
\* the answer is 500 with an error field.
C10_PrimaryKeywordHunter ==
    \A t \in Threads :
        KeywordHunterDone(t) =>
            IF hist[t].raised = <<>> /\ ~Contains(hist[t].output, <<ErrorMarker>>)
            THEN ResultNamesToolAndSource(t)
            ELSE resp[t].status = 500 /\ resp[t].field = "error"

\* C10 witness: the request was answered 200 with the tool and the source named.
C10_Witness ==
    \E t \in Threads :
        KeywordHunterDone(t) /\ hist[t].ollama_calls = 1 /\ ResultNamesToolAndSource(t)

\* The required field of the payload is missing or empty.
RequiredFieldAbsentOrEmpty(field) == ~field.has \/ field.value = <<>>

\* Thread t last posted an object whose required field is missing or empty.
Rejected(t) == loc[t].data = "object" /\ RequiredFieldAbsentOrEmpty(loc[t].field)

\* C11: on every POST route a payload whose required field is missing or empty is
\* answered 400 with an error field; generate_text is not called (no backend is
\* invoked, no initialization attempted, nothing logged), and the handler's step
\* leaves ollama_available, hf_pipeline and GENERATION_METHOD as they are.
C11_MissingFieldRejected ==
    /\ [](\A t \in Threads :
            Rejected(t) =>
                /\ pc[t] = "idle"
                /\ loc[t].route \in Routes
                /\ loc[t].caller = "none"
                /\ resp[t].status = 400
                /\ resp[t].field = "error"
                /\ Truthy(resp[t].body)
                /\ ret[t] = <<>>
                /\ hist[t] = NoHistory)
    /\ [][\A t \in Threads :
            (/\ pc[t] = "idle"
             /\ <<loc[t], resp[t], hist[t], ret[t]>>' # <<loc[t], resp[t], hist[t], ret[t]>>
             /\ Rejected(t)')
            => /\ pc' = pc
               /\ <<ollama_available, hf_pipeline, GENERATION_METHOD, nConstructed>>'
                      = <<ollama_available, hf_pipeline, GENERATION_METHOD, nConstructed>>]_vars

\* C11 witness: POST /api/meta-master with {} and POST /api/news-radar with an empty
\* search_query have both been answered 400, with a pipeline constructed earlier
\* still in place.
C11_Witness ==
    /\ hf_pipeline # None
    /\ \E t, u \in Threads :
        /\ loc[t].route = "/api/meta-master"
        /\ loc[t].data = "object"
        /\ ~loc[t].field.has
        /\ resp[t].status = 400
        /\ loc[u].route = "/api/news-radar"
        /\ loc[u].field = [has |-> TRUE, value |-> <<>>]
        /\ resp[u].status = 400

\* C12: once the startup code has completed, no step of any call or handler changes
\* ollama_available, also when ollama.chat raises on every request.
C12_AvailabilityFrozen == [][Serving => ollama_available' = ollama_available]_vars

\* C12 witness: ollama.chat has raised in the requests of both threads and the
\* primary is still marked available.
C12_Witness ==
    /\ ollama_available
    /\ \A t \in Threads :
        /\ Returned(t)
        /\ hist[t].ollama_calls = 1
        /\ hist[t].raised \in OllamaErrors
        /\ resp[t].status = 500

\* A call of thread t has returned an error banner.
ErrorReturned(t) == Returned(t) /\ hist[t].seen # <<>>

\* C13: the fallback-status text of the error banner is derived from
\* ollama_available, TRANSFORMERS_AVAILABLE and the presence of hf_pipeline: two
\* error banners made in states that agree on the three values carry the same
\* fallback-status text.
C13_FallbackFromThreeValues ==
    \A t, u \in Threads :
        ErrorReturned(t) /\ ErrorReturned(u) /\ hist[t].seen = hist[u].seen
            => hist[t].fallback_info = hist[u].fallback_info

\* The call of thread t is on the fallback branch and found the handle absent at
\* line 100.
FoundAbsent(t) ==
    /\ ~ollama_available
    /\ TRANSFORMERS_AVAILABLE
    /\ InCall(t)
    /\ hist[t].path = "secondary"
    /\ hist[t].init_calls >= 1

\* C14: a call that starts with the handle absent makes exactly one construction
\* attempt, whatever failed before; if the attempt succeeds the same call invokes
\* the pipeline and returns a success banner; later calls construct nothing, that
\* is (each call that finds the handle absent constructing once) no call that
\* starts after a construction has succeeded finds the handle absent at line 100.
C14_OneAttemptPerCall ==
    /\ [](\A t \in Threads :
            /\ FoundAbsent(t) /\ hist[t].init_ret # <<>> =>
                  /\ hist[t].init_calls = 1
                  /\ hist[t].constructs = 1
            /\ FoundAbsent(t) /\ hist[t].init_ret = <<"True">> /\ Returned(t) =>
                  /\ hist[t].hf_calls = 1
                  /\ StartsWith(ret[t], SuccessHeader))
    /\ [][\A t \in Threads :
            pc[t] = "gen_start" /\ pc'[t] = "init_enter" => nConstructed = 0]_vars

\* The startup code has not served a request: the request threads are untouched.
NothingServed ==
    \A t \in Threads :
        /\ pc[t] = "idle"
        /\ loc[t] = NoLocals
        /\ hist[t] = NoHistory
        /\ resp[t] = NoResponse
        /\ ret[t] = <<>>

\* C15: the probe runs once and completes before any request is served; when it
\* succeeds it sets ollama_available and the primary label and initialize_hf_pipeline
\* is not called; when it fails it clears ollama_available, leaves GENERATION_METHOD
\* as it is, and the eager initialize_hf_pipeline call runs exactly once before the
\* server starts.
C15_StartupOrder ==
    /\ [](/\ ~Serving => NothingServed
          /\ pc[MainThread] = "probe" =>
                /\ ~ollama_available
                /\ GENERATION_METHOD = MethodNone
                /\ hist[MainThread].init_calls = 0
          /\ pc[MainThread] = "init_enter" =>
                /\ ~ollama_available
                /\ GENERATION_METHOD = MethodNone
                /\ hist[MainThread].init_calls = 0
          /\ Serving /\ ollama_available =>
                /\ GENERATION_METHOD = MethodOllama
                /\ hist[MainThread].init_calls = 0
          /\ Serving /\ ~ollama_available =>
                /\ hist[MainThread].init_calls = 1
                /\ hist[MainThread].init_ret \in {<<"True">>, <<"False">>})
    /\ [][/\ pc[MainThread] # "probe" => pc'[MainThread] # "probe"
          /\ Serving => pc'[MainThread] = "serving" /\ hist'[MainThread] = hist[MainThread]
          /\ pc[MainThread] = "probe" /\ pc'[MainThread] # "probe" =>
                \/ /\ ollama_available'
                   /\ GENERATION_METHOD' = MethodOllama
                   /\ pc'[MainThread] = "serving"
                \/ /\ ~ollama_available'
                   /\ GENERATION_METHOD' = GENERATION_METHOD
                   /\ pc'[MainThread] = "init_enter"]_vars

\* C15 witness: the probe failed, the eager initialization ran once and failed, and
\* a request has then been answered.
C15_Witness ==
    /\ Serving
    /\ ~ollama_available
    /\ hist[MainThread].init_calls = 1
    /\ hist[MainThread].init_ret = <<"False">>
    /\ \E t \in Threads : Returned(t) /\ resp[t].status # 0

InitPcs == {"init_enter", "init_construct", "init_set_method", "init_fail_method"}

\* C16: on the fallback branch, while no initialization attempt is in progress and
\* one has finished, GENERATION_METHOD is "Hugging Face" exactly when hf_pipeline is
\* present and "Error: HF Init Failed" exactly when it is absent.
C16_MethodAgreesWithHandle ==
    (/\ ~ollama_available
     /\ TRANSFORMERS_AVAILABLE
     /\ Serving
     /\ \A p \in Procs : pc[p] \notin InitPcs)
    => /\ GENERATION_METHOD = MethodHf <=> hf_pipeline # None
       /\ GENERATION_METHOD = MethodHfInitFailed <=> hf_pipeline = None

\* C17: a call on the fallback branch for which initialize_hf_pipeline returned True,
\* or which found the handle present at line 100, invokes the pipeline, and no call
\* returns the "not available after initialization attempt" error.
C17_ReadyMeansInvoked ==
    \A t \in Threads :
        Returned(t) =>
            /\ ~Contains(ret[t], MsgNoPipeline)
            /\ (/\ hist[t].path = "secondary"
                /\ \/ hist[t].init_ret = <<"True">>
                   \/ hist[t].init_calls = 0)
               => hist[t].hf_calls = 1

\* generate_text took its error path in the call thread t has returned from.
TookErrorPath(t) == StartsWith(ret[t], <<ErrorMarker>>)

\* C18: a handler called with its required field present answers 500 with an error
\* field exactly when generate_text took its error path, and 200 with a result
\* field exactly when generation succeeded, whatever text the backend returned.
C18_StatusFollowsOutcome ==
    \A t \in Threads :
        Returned(t) /\ loc[t].caller = "handler" =>
            /\ (resp[t].status = 500 /\ resp[t].field = "error") <=> TookErrorPath(t)
            /\ (resp[t].status = 200 /\ resp[t].field = "result") <=> ~TookErrorPath(t)

====
